---- MODULE Spec2Model ----
(***************************************************************************)
(* Model of reporting/email_report.py: discover_accounts, the main script, *)
(* fetch_from_account (fetch_from_imap / fetch_from_pop3) and              *)
(* send_consolidated_report.                                               *)
(* Model of maltego/maltego-trx/maltego_trx.py: ListFiles.create_entities. *)
(* Library calls (imaplib, poplib, pandas, smtplib, os) are steps whose    *)
(* outcome is chosen nondeterministically among the results and exceptions *)
(* the library can produce; the control flow around them is the script's.  *)
(***************************************************************************)
EXTENDS Integers, Sequences, FiniteSets, TLC

\* ---------------------------------------------------------------- bounds
MaxRetriesBound == 2
MaxMsgs == 2
MaxRows == 2
MaxTreeDepth == 2
MaxFaults == 1

\* ------------------------------------------------------------- variables
VARIABLES
  entry,               \* "main": the script is run; "send": send_consolidated_report is called directly;
                       \* "discover": discover_accounts is called;
                       \* "listfiles": ListFiles.create_entities is called
  MAX_RETRIES,         \* configuration read at import
  SENDER_EMAIL,
  SENDER_PASS,
  ACCOUNTS_TO_CHECK,
  pc,                  \* position of the single thread of control
  idx,                 \* main loop: 1-based index of the account processed
  master_list,
  successful_accounts,
  exit_code,           \* -1 while running
  retry_count,         \* fetch_from_imap / fetch_from_pop3 frame
  extracted_data,
  num_messages,        \* len(email_ids) / len(mail.list()[1])
  msg_i,               \* per-message loop index
  ret,                 \* list returned by fetch_from_account
  connects,            \* history: connections opened for the account being fetched
  backoff,             \* history: sleep() durations of the account being fetched
  discarded,           \* history: a retry of this fetch dropped records of the failed attempt
  fetch_exit,          \* history: how the returning attempt ended
  fail_step,           \* history: step at which the returning attempt raised
  timeout_at,          \* history: where a TimeoutError was raised during this account fetch
  last_msg,            \* history: what the latest iteration of the per-message loop met
  server_removed,      \* history: this fetch made the server remove a message
  dataframe,           \* send_consolidated_report frame
  attempt,
  artifact,            \* what is stored under REPORT_FILENAME: "none", "xlsx", "csv"
  attached,            \* artifact attached to the composed message
  smtp_connects,       \* history: smtplib.SMTP(...) calls
  deliveries,          \* history: server.sendmail(...) calls that completed
  sleeps,              \* history: sleep() durations in send_consolidated_report
  send_exit,           \* history: the path send_consolidated_report returned on
  smtp_done,           \* history: SMTP calls the current send attempt has completed
  primary_failed,      \* history: the spreadsheet writer raised
  smtp_auth_error,     \* history: an SMTP call raised SMTPAuthenticationError
  send_result,         \* "none", "True", "False"
  environ,             \* os.environ: key -> <<>> when unset, <<value>> when set
  unscanned,           \* discover_accounts: keys the scan loop has not visited yet
  account_numbers,
  num,                 \* the account number the build loop handled last, -1 before the loop
  accounts,
  request,             \* ListFiles: the request parameters recursive, max_depth, maxdepth
  listenv,             \* LISTFILES_RECURSIVE and LISTFILES_MAXDEPTH of os.environ
  folder,              \* what request.Value names: "missing", "file", "dir", "denied"
  tree,                \* the directory tree under folder_path, by depth
  recursive,
  max_depth,           \* <<>> for None, <<n>> for the integer n
  stack,               \* iter_files: entries left to visit, one frame per open directory
  current,             \* depth of the file iter_files has just yielded, -1 when none
  entities,            \* response: entities added
  messages,            \* response: UI messages added, by kind
  total,
  faults,              \* history: calls that have raised during this invocation
  failing              \* history: the entries whose inspection or listing raised, as <<kind, depth>>

discVars  == <<environ, unscanned, account_numbers, num, accounts>>
listVars  == <<request, listenv, folder, tree, recursive, max_depth, stack, current, entities,
               messages, total, faults, failing>>
\* the configuration of a run, with the frame of discover_accounts that produced
\* it and the state of the transform, which the script does not touch
cfgVars   == <<entry, MAX_RETRIES, SENDER_EMAIL, SENDER_PASS, ACCOUNTS_TO_CHECK, discVars, listVars>>
mainVars  == <<idx, master_list, successful_accounts, exit_code>>
frameVars == <<retry_count, extracted_data, num_messages, msg_i>>
fetchHist == <<connects, backoff, discarded, fetch_exit, fail_step, timeout_at, last_msg, server_removed>>
fetchVars == <<frameVars, ret, fetchHist>>
sendVars  == <<dataframe, attempt, artifact, attached, smtp_connects, deliveries, sleeps, send_exit,
               smtp_done, primary_failed, smtp_auth_error, send_result>>
vars      == <<cfgVars, pc, mainVars, fetchVars, sendVars>>

\* --------------------------------------------------------------- helpers
RECURSIVE Pow2(_)
Pow2(n) == IF n <= 0 THEN 1 ELSE 2 * Pow2(n - 1)

Account(n, pw, proto) ==
  [email |-> n, password |-> pw, server |-> "host", protocol |-> proto]

\* the account lists the runs start from: none, one or two accounts, over
\* IMAP and POP3, with and without a password
AccountLists ==
  { <<>>,
    << Account(1, "", "IMAP") >>,
    << Account(1, "pw", "IMAP") >>,
    << Account(1, "pw", "POP3") >>,
    << Account(1, "pw", "IMAP"), Account(2, "pw", "POP3") >>,
    << Account(1, "", "POP3"), Account(2, "pw", "IMAP") >>,
    << Account(1, "pw", "IMAP"), Account(2, "", "IMAP") >> }

\* one MessageRecord; Msg stands for the message's Sender and Subject
Row(acct, m, d) == [SourceAccount |-> acct, Msg |-> m, Date |-> d]

SampleFrames == { [k \in 1..n |-> Row(1, k, "new")] : n \in 0..MaxRows }

\* line 126 / 209: user = account_config['email']
userOfFirstAccount == ACCOUNTS_TO_CHECK[1].email

user == ACCOUNTS_TO_CHECK[idx].email

FetchPcs == { "imap_connect", "imap_login", "imap_select", "imap_search", "imap_fetch",
              "imap_close", "imap_logout",
              "pop3_connect", "pop3_user", "pop3_pass", "pop3_list", "pop3_retr", "pop3_quit" }

\* discover_accounts is not running
DiscoverAtRest ==
  /\ environ = <<>>
  /\ unscanned = {}
  /\ account_numbers = {}
  /\ num = -1
  /\ accounts = <<>>

\* a request parameter or environment value: None, a bool, an int, a string of
\* decimal digits (val is the number it spells) or any other string
None == [type |-> "none", val |-> 0]

Param(type, val) == [type |-> type, val |-> val]

\* ListFiles.create_entities is not running
ListAtRest ==
  /\ request = [recursive |-> None, max_depth |-> None, maxdepth |-> None]
  /\ listenv = [LISTFILES_RECURSIVE |-> None, LISTFILES_MAXDEPTH |-> None]
  /\ folder = "missing"
  /\ tree = <<>>
  /\ recursive = FALSE
  /\ max_depth = <<>>
  /\ stack = <<>>
  /\ current = -1
  /\ entities = <<>>
  /\ messages = <<>>
  /\ total = 0
  /\ faults = 0
  /\ failing = {}

\* the report script is not running
ScriptAtRest ==
  /\ MAX_RETRIES = 0
  /\ SENDER_EMAIL = ""
  /\ SENDER_PASS = ""
  /\ ACCOUNTS_TO_CHECK = <<>>
  /\ idx = 0
  /\ master_list = <<>>
  /\ successful_accounts = 0
  /\ exit_code = -1
  /\ retry_count = 0
  /\ extracted_data = <<>>
  /\ num_messages = 0
  /\ msg_i = 0
  /\ ret = <<>>
  /\ connects = 0
  /\ backoff = <<>>
  /\ discarded = FALSE
  /\ fetch_exit = "none"
  /\ fail_step = "none"
  /\ timeout_at = "none"
  /\ last_msg = "none"
  /\ server_removed = FALSE
  /\ dataframe = <<>>
  /\ attempt = 0
  /\ artifact = "none"
  /\ attached = "none"
  /\ smtp_connects = 0
  /\ deliveries = 0
  /\ sleeps = <<>>
  /\ send_exit = "none"
  /\ smtp_done = <<>>
  /\ primary_failed = FALSE
  /\ smtp_auth_error = FALSE
  /\ send_result = "none"

Init ==
  /\ entry \in {"main", "send"}
  /\ DiscoverAtRest
  /\ ListAtRest
  /\ MAX_RETRIES \in 0..MaxRetriesBound
  /\ idx = 0
  /\ master_list = <<>>
  /\ successful_accounts = 0
  /\ exit_code = -1
  /\ retry_count = 0
  /\ extracted_data = <<>>
  /\ num_messages = 0
  /\ msg_i = 0
  /\ ret = <<>>
  /\ connects = 0
  /\ backoff = <<>>
  /\ discarded = FALSE
  /\ fetch_exit = "none"
  /\ fail_step = "none"
  /\ timeout_at = "none"
  /\ last_msg = "none"
  /\ server_removed = FALSE
  /\ attempt = 0
  /\ artifact = "none"
  /\ attached = "none"
  /\ smtp_connects = 0
  /\ deliveries = 0
  /\ sleeps = <<>>
  /\ send_exit = "none"
  /\ smtp_done = <<>>
  /\ primary_failed = FALSE
  /\ smtp_auth_error = FALSE
  /\ send_result = "none"
  /\ \/ /\ entry = "main"
        /\ SENDER_EMAIL \in {"", "bot"}
        /\ SENDER_PASS \in {"", "pw"}
        /\ ACCOUNTS_TO_CHECK \in AccountLists
        /\ dataframe = <<>>
        /\ pc = "main"
     \/ /\ entry = "send"
        /\ SENDER_EMAIL = "bot"
        /\ SENDER_PASS = "pw"
        /\ ACCOUNTS_TO_CHECK = <<>>
        /\ dataframe \in SampleFrames
        /\ pc = "send_entry"

\* ------------------------------------------------------------ main script
exit(code) ==
  /\ pc' = "exit"
  /\ exit_code' = code

\* lines 396-417: configuration checks, then the empty master list
MainStart ==
  /\ pc = "main"
  /\ IF SENDER_EMAIL = "" \/ SENDER_PASS = ""
       THEN exit(1) /\ UNCHANGED <<idx, master_list, successful_accounts>>
     ELSE IF ACCOUNTS_TO_CHECK = <<>>
       THEN exit(1) /\ UNCHANGED <<idx, master_list, successful_accounts>>
     ELSE IF ~ \E k \in 1..Len(ACCOUNTS_TO_CHECK) : ACCOUNTS_TO_CHECK[k].password # ""
       THEN exit(1) /\ UNCHANGED <<idx, master_list, successful_accounts>>
     ELSE /\ pc' = "loop"
          /\ idx' = 1
          /\ master_list' = <<>>
          /\ successful_accounts' = 0
          /\ UNCHANGED exit_code
  /\ UNCHANGED <<cfgVars, fetchVars, sendVars>>

\* lines 110-122: dispatch on the account's protocol
fetch_from_account(account) ==
  IF account.protocol = "POP3" THEN "pop3_connect" ELSE "imap_connect"

\* lines 420-428: next account of the loop; skip it or call fetch_from_account
MainLoop ==
  /\ pc = "loop"
  /\ IF idx > Len(ACCOUNTS_TO_CHECK)
       THEN /\ pc' = "after_loop"
            /\ UNCHANGED <<idx, fetchVars>>
     ELSE IF ACCOUNTS_TO_CHECK[idx].password = ""
       THEN /\ pc' = "loop"
            /\ idx' = idx + 1
            /\ UNCHANGED fetchVars
     ELSE /\ pc' = fetch_from_account(ACCOUNTS_TO_CHECK[idx])
          /\ retry_count' = 0
          /\ extracted_data' = <<>>
          /\ num_messages' = 0
          /\ msg_i' = 0
          /\ ret' = <<>>
          /\ connects' = 0
          /\ backoff' = <<>>
          /\ discarded' = FALSE
          /\ fetch_exit' = "none"
          /\ fail_step' = "none"
          /\ timeout_at' = "none"
          /\ last_msg' = "none"
          /\ server_removed' = FALSE
          /\ UNCHANGED idx
  /\ UNCHANGED <<cfgVars, master_list, successful_accounts, exit_code, sendVars>>

\* line 431: master_list.extend(account_data)
extendInFront(list, data) == data \o list

extend(list, data) == list \o data

\* lines 428-432: account_data = fetch_from_account(account); extend the master list
MainCollect ==
  /\ pc = "fetch_return"
  /\ successful_accounts' = IF ret # <<>> THEN successful_accounts + 1 ELSE successful_accounts
  /\ master_list' = extend(master_list, ret)
  /\ idx' = idx + 1
  /\ pc' = "loop"
  /\ retry_count' = 0          \* the callee's frame is gone
  /\ extracted_data' = <<>>
  /\ num_messages' = 0
  /\ msg_i' = 0
  /\ ret' = <<>>
  /\ connects' = 0
  /\ backoff' = <<>>
  /\ discarded' = FALSE
  /\ fetch_exit' = "none"
  /\ fail_step' = "none"
  /\ timeout_at' = "none"
  /\ last_msg' = "none"
  /\ server_removed' = FALSE
  /\ UNCHANGED <<cfgVars, exit_code, sendVars>>

\* lines 441-459: send the report when something was collected
MainReport ==
  /\ pc = "after_loop"
  /\ IF master_list # <<>>
       THEN /\ dataframe' = master_list
            /\ pc' = "send_entry"
            /\ UNCHANGED exit_code
       ELSE /\ exit(0)
            /\ UNCHANGED dataframe
  /\ UNCHANGED <<cfgVars, idx, master_list, successful_accounts, fetchVars,
                 attempt, artifact, attached, smtp_connects, deliveries, sleeps, send_exit, smtp_done,
                 primary_failed, smtp_auth_error, send_result>>

\* lines 446-455: exit(0) when the report was sent, exit(1) otherwise
ExitCodeAfterSendZero(success) == IF success = "True" THEN 0 ELSE 0

ExitCodeAfterSend(success) == IF success = "True" THEN 0 ELSE 1

\* lines 446-455: exit code from the result of send_consolidated_report
MainExit ==
  /\ pc = "send_return"
  /\ entry = "main"
  /\ exit(ExitCodeAfterSend(send_result))
  /\ UNCHANGED <<cfgVars, idx, master_list, successful_accounts, fetchVars, sendVars>>

\* ------------------------------------------------- fetch: shared control flow
\* what a library call can raise: imaplib.IMAP4.error / poplib.error_proto,
\* TimeoutError, any other Exception
Raised == {"proto", "timeout", "other"}

\* lines 194-203: the except clauses of fetch_from_imap, in source order
ImapHandlerNoCatchAll(exc, rc, max) ==
  IF exc = "proto" THEN (IF rc < max THEN "retry" ELSE "return")
  ELSE IF exc = "timeout" THEN "return"
  ELSE "propagate"

ImapHandlerRetryAlways(exc, rc, max) ==
  IF exc = "proto" THEN "retry" ELSE "return"

ImapHandlerRetryTimeout(exc, rc, max) ==
  IF exc \in {"proto", "timeout"} THEN (IF rc < max THEN "retry" ELSE "return")
  ELSE "return"

ImapHandler(exc, rc, max) ==
  IF exc = "proto" THEN (IF rc < max THEN "retry" ELSE "return")
  ELSE IF exc = "timeout" THEN "return"
  ELSE IF exc = "other" THEN "return"
  ELSE "propagate"

\* lines 278-287: the except clauses of fetch_from_pop3, in source order
Pop3Handler(exc, rc, max) ==
  IF exc = "proto" THEN (IF rc < max THEN "retry" ELSE "return")
  ELSE IF exc = "timeout" THEN "return"
  ELSE IF exc = "other" THEN "return"
  ELSE "propagate"

\* line 130 / 215: the list a new call of fetch_from_imap / fetch_from_pop3 starts with
FreshDataKeepsOld == extracted_data

FreshDataKeepsLast ==
  IF extracted_data = <<>> THEN <<>> ELSE <<extracted_data[Len(extracted_data)]>>

FreshData == <<>>

\* line 199 / 283: return fetch_from_xxx(account_config, retry_count + 1), after the backoff sleep
Retry(first) ==
  /\ pc' = first
  /\ retry_count' = retry_count + 1
  /\ extracted_data' = FreshData
  /\ num_messages' = 0
  /\ msg_i' = 0
  /\ backoff' = Append(backoff, Pow2(retry_count))
  /\ discarded' = (discarded \/ extracted_data # <<>>)
  /\ last_msg' = "none"
  /\ UNCHANGED <<ret, fetch_exit, fail_step>>

\* line 143 / 153 / 205 / 289: return extracted_data
Return(how, step) ==
  /\ pc' = "fetch_return"
  /\ ret' = extracted_data
  /\ fetch_exit' = how
  /\ fail_step' = step
  /\ last_msg' = "none"
  /\ UNCHANGED <<frameVars, backoff, discarded>>

\* an exception raised in the try block outside the per-message loop
Raise(h, exc, first) ==
  /\ timeout_at' = IF exc = "timeout" THEN "outer" ELSE timeout_at
  /\ CASE h = "retry"  -> Retry(first)
       [] h = "return" -> Return(exc, pc)
       [] OTHER        -> /\ pc' = "fetch_raised"
                          /\ fetch_exit' = exc
                          /\ fail_step' = pc
                          /\ last_msg' = "none"
                          /\ UNCHANGED <<frameVars, ret, backoff, discarded>>

Proceed(next) ==
  /\ pc' = next
  /\ last_msg' = "none"
  /\ UNCHANGED <<frameVars, ret, backoff, discarded, fetch_exit, fail_step, timeout_at>>

\* the per-message loop moves on to the next message, or past the loop
NextMessage(after) ==
  IF msg_i < num_messages
    THEN /\ msg_i' = msg_i + 1
         /\ UNCHANGED pc
    ELSE /\ pc' = after
         /\ UNCHANGED msg_i

\* lines 186-188 / 270-272: except Exception inside the per-message loop: continue
PerMessageHandlerPropagates(exc) == "propagate"

PerMessageHandler(exc) == "continue"

FetchFrame == UNCHANGED <<cfgVars, mainVars, sendVars>>

\* ---------------------------------------------------------- fetch_from_imap
ImapRaise(exc) == Raise(ImapHandler(exc, retry_count, MAX_RETRIES), exc, "imap_connect")

\* line 136: mail = imaplib.IMAP4_SSL(server_host)
ImapConnect ==
  /\ pc = "imap_connect"
  /\ connects' = connects + 1
  /\ \/ Proceed("imap_login")
     \/ \E exc \in Raised : ImapRaise(exc)
  /\ UNCHANGED server_removed
  /\ FetchFrame

\* line 137: mail.login(user, pwd)
ImapLogin ==
  /\ pc = "imap_login"
  /\ \/ Proceed("imap_select")
     \/ \E exc \in Raised : ImapRaise(exc)
  /\ UNCHANGED <<connects, server_removed>>
  /\ FetchFrame

\* lines 140-143: mail.select('inbox'); a status other than OK returns the empty list
ImapSelect ==
  /\ pc = "imap_select"
  /\ \/ Proceed("imap_search")
     \/ Return("select_notok", pc) /\ UNCHANGED timeout_at
     \/ \E exc \in Raised : ImapRaise(exc)
  /\ UNCHANGED <<connects, server_removed>>
  /\ FetchFrame

\* lines 148-157: mail.search(SINCE cutoff); email_ids = messages[0].split()
ImapSearch ==
  /\ pc = "imap_search"
  /\ \/ \E n \in 0..MaxMsgs :
          /\ num_messages' = n
          /\ msg_i' = IF n > 0 THEN 1 ELSE 0
          /\ pc' = IF n > 0 THEN "imap_fetch" ELSE "imap_close"
          /\ UNCHANGED <<retry_count, extracted_data, ret, backoff, discarded, fetch_exit, fail_step, timeout_at,
                         last_msg>>
     \/ Return("search_notok", pc) /\ UNCHANGED timeout_at
     \/ \E exc \in Raised : ImapRaise(exc)
  /\ UNCHANGED <<connects, server_removed>>
  /\ FetchFrame

\* lines 160-188: one iteration of the per-message loop
ImapFetch ==
  /\ pc = "imap_fetch"
  /\ \/ /\ extracted_data' = Append(extracted_data, Row(user, msg_i, "new"))   \* status OK, one (header, body) part
        /\ last_msg' = "new"
        /\ NextMessage("imap_close")
        /\ UNCHANGED <<retry_count, num_messages, ret, backoff, discarded, fetch_exit, fail_step, timeout_at>>
     \/ /\ last_msg' = "notok"                                                   \* status not OK: continue
        /\ NextMessage("imap_close")
        /\ UNCHANGED <<retry_count, extracted_data, num_messages, ret, backoff, discarded, fetch_exit,
                       fail_step, timeout_at>>
     \/ \E exc \in Raised :
          IF PerMessageHandler(exc) = "continue"
            THEN /\ last_msg' = "err"
                 /\ timeout_at' = IF exc = "timeout" /\ timeout_at = "none" THEN "inner" ELSE timeout_at
                 /\ NextMessage("imap_close")
                 /\ UNCHANGED <<retry_count, extracted_data, num_messages, ret, backoff, discarded, fetch_exit,
                                fail_step>>
            ELSE ImapRaise(exc)
  /\ UNCHANGED <<connects, server_removed>>
  /\ FetchFrame

\* line 190: mail.close() on the inbox that line 140, mail.select('inbox'),
\* opened read-write. imaplib: "Close currently selected mailbox. Deleted
\* messages are removed from writable mailbox": the server removes the
\* messages that carry the \Deleted flag, whoever set it
CloseExpunges(flagged) == flagged

\* line 190: mail.close(); flagged: the inbox holds a message that another
\* client flagged \Deleted
ImapClose ==
  /\ pc = "imap_close"
  /\ \/ /\ Proceed("imap_logout")
        /\ \E flagged \in BOOLEAN :
             server_removed' = (server_removed \/ CloseExpunges(flagged))
     \/ /\ \E exc \in Raised : ImapRaise(exc)
        /\ UNCHANGED server_removed
  /\ UNCHANGED connects
  /\ FetchFrame

\* lines 191-192, 205: mail.logout(), then return extracted_data
ImapLogout ==
  /\ pc = "imap_logout"
  /\ \/ Return("ok", "none") /\ UNCHANGED timeout_at
     \/ \E exc \in Raised : ImapRaise(exc)
  /\ UNCHANGED <<connects, server_removed>>
  /\ FetchFrame

\* ---------------------------------------------------------- fetch_from_pop3
Pop3Raise(exc) == Raise(Pop3Handler(exc, retry_count, MAX_RETRIES), exc, "pop3_connect")

\* what the Date header of a retrieved message can be: missing or malformed,
\* or a date with a UTC offset, here the script's own zone or one two hours
\* east or west of it
Dates == {"new", "old", "new_east", "old_west", "unparsable"}

\* lines 247-250: email.utils.parsedate_to_datetime(date_str) raises on a
\* missing or malformed header
DateParses(d) == d # "unparsable"

\* the zone of the parsed date, in hours ahead of the script's zone
UtcOffset(d) == CASE d = "new_east" -> 2 [] d = "old_west" -> 0 - 2 [] OTHER -> 0

\* line 253: msg_date.replace(tzinfo=None) keeps the clock reading of the
\* date and drops its zone; here in hours after the reading of date_cutoff
\* (line 232: datetime.now() - timedelta(days=DAYS_BACK), in the script's zone)
NaiveClock(d) == CASE d \in {"new", "new_east"} -> 1 [] OTHER -> 0 - 1

\* lines 247-257: the message is skipped when its date parses and its clock
\* reading is before that of the cutoff
Pop3Skips(d) == DateParses(d) /\ NaiveClock(d) < 0

\* line 221: mail = poplib.POP3_SSL(server_host)
Pop3Connect ==
  /\ pc = "pop3_connect"
  /\ connects' = connects + 1
  /\ \/ Proceed("pop3_user")
     \/ \E exc \in Raised : Pop3Raise(exc)
  /\ UNCHANGED server_removed
  /\ FetchFrame

\* line 222: mail.user(user)
Pop3User ==
  /\ pc = "pop3_user"
  /\ \/ Proceed("pop3_pass")
     \/ \E exc \in Raised : Pop3Raise(exc)
  /\ UNCHANGED <<connects, server_removed>>
  /\ FetchFrame

\* line 223: mail.pass_(pwd)
Pop3Pass ==
  /\ pc = "pop3_pass"
  /\ \/ Proceed("pop3_list")
     \/ \E exc \in Raised : Pop3Raise(exc)
  /\ UNCHANGED <<connects, server_removed>>
  /\ FetchFrame

\* lines 228-232: num_messages = len(mail.list()[1])
Pop3List ==
  /\ pc = "pop3_list"
  /\ \/ \E n \in 0..MaxMsgs :
          /\ num_messages' = n
          /\ msg_i' = IF n > 0 THEN 1 ELSE 0
          /\ pc' = IF n > 0 THEN "pop3_retr" ELSE "pop3_quit"
          /\ UNCHANGED <<retry_count, extracted_data, ret, backoff, discarded, fetch_exit, fail_step, timeout_at,
                         last_msg>>
     \/ \E exc \in Raised : Pop3Raise(exc)
  /\ UNCHANGED <<connects, server_removed>>
  /\ FetchFrame

\* lines 235-272: one iteration of the per-message loop
Pop3Retr ==
  /\ pc = "pop3_retr"
  /\ \/ \E d \in Dates :
          /\ extracted_data' = IF Pop3Skips(d) THEN extracted_data
                               ELSE Append(extracted_data, Row(user, msg_i, d))
          /\ last_msg' = d
          /\ NextMessage("pop3_quit")
          /\ UNCHANGED <<retry_count, num_messages, ret, backoff, discarded, fetch_exit, fail_step, timeout_at>>
     \/ \E exc \in Raised :
          IF PerMessageHandler(exc) = "continue"
            THEN /\ last_msg' = "err"
                 /\ timeout_at' = IF exc = "timeout" /\ timeout_at = "none" THEN "inner" ELSE timeout_at
                 /\ NextMessage("pop3_quit")
                 /\ UNCHANGED <<retry_count, extracted_data, num_messages, ret, backoff, discarded, fetch_exit,
                                fail_step>>
            ELSE Pop3Raise(exc)
  /\ UNCHANGED <<connects, server_removed>>
  /\ FetchFrame

\* lines 275-276, 289: mail.quit(), then return extracted_data
Pop3Quit ==
  /\ pc = "pop3_quit"
  /\ \/ Return("ok", "none") /\ UNCHANGED timeout_at
     \/ \E exc \in Raised : Pop3Raise(exc)
  /\ UNCHANGED <<connects, server_removed>>
  /\ FetchFrame

\* ------------------------------------------------ send_consolidated_report
SendFrame == UNCHANGED <<cfgVars, mainVars, fetchVars, dataframe>>

\* a return statement of send_consolidated_report
SendReturn(result, how) ==
  /\ pc' = "send_return"
  /\ send_result' = result
  /\ send_exit' = how

\* line 293: dataframe.empty
emptyNever(df) == FALSE

empty(df) == df = <<>>

\* lines 293-295: an empty dataframe returns False at once
SendEntry ==
  /\ pc = "send_entry"
  /\ IF empty(dataframe)
       THEN SendReturn("False", "empty")
       ELSE /\ pc' = "write_excel"
            /\ UNCHANGED <<send_result, send_exit>>
  /\ UNCHANGED <<attempt, artifact, attached, smtp_connects, deliveries, sleeps, smtp_done,
                 primary_failed, smtp_auth_error>>
  /\ SendFrame

\* lines 301-316: pd.ExcelWriter(REPORT_FILENAME) / to_excel / column widths
WriteExcel ==
  /\ pc = "write_excel"
  /\ \/ /\ artifact' = "xlsx"
        /\ pc' = "compose"
        /\ UNCHANGED primary_failed
     \/ /\ pc' = "write_csv"              \* except Exception: fall back to CSV
        /\ primary_failed' = TRUE
        /\ UNCHANGED artifact
  /\ UNCHANGED <<attempt, attached, smtp_connects, deliveries, sleeps, send_exit, smtp_done,
                 smtp_auth_error, send_result>>
  /\ SendFrame

\* lines 320-322: a failure of the fallback write is logged and re-raised
OnCsvFailureSwallow == "swallow"

OnCsvFailure == "raise"

\* lines 317-322 and 382-384: dataframe.to_csv(REPORT_FILENAME); the re-raised
\* failure is caught by the outer handler, which returns False
WriteCsv ==
  /\ pc = "write_csv"
  /\ \/ /\ artifact' = "csv"
        /\ pc' = "compose"
        /\ UNCHANGED <<send_result, send_exit>>
     \/ /\ IF OnCsvFailure = "raise"
             THEN SendReturn("False", "write_failed")
             ELSE pc' = "compose" /\ UNCHANGED <<send_result, send_exit>>
        /\ UNCHANGED artifact
  /\ UNCHANGED <<attempt, attached, smtp_connects, deliveries, sleeps, smtp_done,
                 primary_failed, smtp_auth_error>>
  /\ SendFrame

\* lines 325-359 and 382-384: build the message, attach the file at REPORT_FILENAME
Compose ==
  /\ pc = "compose"
  /\ \/ /\ attached' = artifact
        /\ attempt' = 0
        /\ pc' = "send_loop"
        /\ UNCHANGED <<send_result, send_exit>>
     \/ /\ SendReturn("False", "compose_failed")
        /\ UNCHANGED <<attached, attempt>>
  /\ UNCHANGED <<artifact, smtp_connects, deliveries, sleeps, smtp_done, primary_failed, smtp_auth_error>>
  /\ SendFrame

\* line 362: range(MAX_RETRIES)
SendAttemptsOneMore(max) == max + 1

SendAttempts(max) == max

\* line 377: the backoff sleep is taken unless this was the last attempt
SleepsAfter(att, max) == att < max - 1

\* lines 372-380: SMTPAuthenticationError breaks out of the loop, any other
\* Exception goes on to the next attempt
SmtpHandlerRetryAuth(exc) == "continue"

SmtpHandler(exc) == IF exc = "auth" THEN "break" ELSE "continue"

\* line 386: the return after the loop
AfterLoopResultTrue == "True"

AfterLoopResult == "False"

\* line 362: the head of the for loop; falling out of it reaches line 386
SendLoop ==
  /\ pc = "send_loop"
  /\ IF attempt < SendAttempts(MAX_RETRIES)
       THEN /\ pc' = "smtp_connect"
            /\ smtp_done' = <<>>
            /\ UNCHANGED <<send_result, send_exit>>
       ELSE /\ SendReturn(AfterLoopResult, "exhausted")
            /\ UNCHANGED smtp_done
  /\ UNCHANGED <<attempt, artifact, attached, smtp_connects, deliveries, sleeps, primary_failed, smtp_auth_error>>
  /\ SendFrame

SmtpRaised == {"auth", "other"}

\* an exception raised by one of the SMTP calls of lines 365-369
SmtpRaise(exc) ==
  /\ smtp_auth_error' = (smtp_auth_error \/ exc = "auth")
  /\ IF SmtpHandler(exc) = "break"
    THEN /\ SendReturn(AfterLoopResult, "auth")
         /\ UNCHANGED <<attempt, sleeps>>
    ELSE /\ sleeps' = IF SleepsAfter(attempt, MAX_RETRIES)
                        THEN Append(sleeps, Pow2(attempt)) ELSE sleeps
         /\ attempt' = attempt + 1
         /\ pc' = "send_loop"
         /\ UNCHANGED <<send_result, send_exit>>

SmtpStep(name, next) ==
  \/ /\ smtp_done' = Append(smtp_done, name)
     /\ pc' = next
     /\ UNCHANGED <<attempt, sleeps, send_result, send_exit, smtp_auth_error>>
  \/ /\ \E exc \in SmtpRaised : SmtpRaise(exc)
     /\ UNCHANGED smtp_done

\* line 365: server = smtplib.SMTP(SMTP_SERVER, SMTP_PORT, timeout=30)
SmtpConnect ==
  /\ pc = "smtp_connect"
  /\ smtp_connects' = smtp_connects + 1
  /\ SmtpStep("connect", "smtp_starttls")
  /\ UNCHANGED <<artifact, attached, deliveries, primary_failed>>
  /\ SendFrame

\* line 366: server.starttls()
SmtpStarttls ==
  /\ pc = "smtp_starttls"
  /\ SmtpStep("starttls", "smtp_login")
  /\ UNCHANGED <<artifact, attached, smtp_connects, deliveries, primary_failed>>
  /\ SendFrame

\* line 367: server.login(SENDER_EMAIL, SENDER_PASS)
SmtpLogin ==
  /\ pc = "smtp_login"
  /\ SmtpStep("login", "smtp_sendmail")
  /\ UNCHANGED <<artifact, attached, smtp_connects, deliveries, primary_failed>>
  /\ SendFrame

\* line 368: server.sendmail(...)
SmtpSendmail ==
  /\ pc = "smtp_sendmail"
  /\ SmtpStep("sendmail", "smtp_quit")
  /\ deliveries' = IF pc' = "smtp_quit" THEN deliveries + 1 ELSE deliveries
  /\ UNCHANGED <<artifact, attached, smtp_connects, primary_failed>>
  /\ SendFrame

\* lines 369-371: server.quit(), then return True
SmtpQuit ==
  /\ pc = "smtp_quit"
  /\ \/ /\ smtp_done' = Append(smtp_done, "quit")
        /\ SendReturn("True", "sent")
        /\ UNCHANGED <<attempt, sleeps, smtp_auth_error>>
     \/ /\ \E exc \in SmtpRaised : SmtpRaise(exc)
        /\ UNCHANGED smtp_done
  /\ UNCHANGED <<artifact, attached, smtp_connects, deliveries, primary_failed>>
  /\ SendFrame

\* the direct caller of send_consolidated_report receives the result
CallerReturn ==
  /\ pc = "send_return"
  /\ entry = "send"
  /\ pc' = "done"
  /\ UNCHANGED <<cfgVars, mainVars, fetchVars, sendVars>>

\* ------------------------------------------------------- discover_accounts
\* the digit strings that stand between ACCOUNT_ and _EMAIL in the keys of the
\* environment: "1", "01", "5"
KeyDigits == { <<1>>, <<0, 1>>, <<5>> }

\* line 50: int(match.group(1))
RECURSIVE int(_)
int(ds) == IF ds = <<>> THEN 0 ELSE 10 * int(SubSeq(ds, 1, Len(ds) - 1)) + ds[Len(ds)]

\* lines 54-64: the {num} of the f-strings, the decimal digits of num
RECURSIVE str(_)
str(n) == IF n < 10 THEN <<n>> ELSE str(n \div 10) \o <<n % 10>>

\* the numbers and the keys that lines 54-64 can look up
Numbers == { int(ds) : ds \in KeyDigits }

Fields == {"EMAIL", "PASS", "PROTOCOL", "SERVER"}

Keys == ({"EMAIL"} \X KeyDigits) \cup ((Fields \ {"EMAIL"}) \X { str(n) : n \in Numbers })

\* the address stored under ACCOUNT_<ds>_EMAIL, one of its own for each key
AddressOf(ds) == CASE ds = <<1>> -> "one@x" [] ds = <<0, 1>> -> "zero-one@x" [] OTHER -> "five@x"

\* what a key other than an address key can hold: nothing (unset), or a value
ValuesOf(field) ==
  CASE field = "PASS"     -> { <<>>, <<"pw">> }
    [] field = "PROTOCOL" -> { <<>>, <<"imap">>, <<"pop3">>, <<"POP3">>, <<"exchange">> }
    [] OTHER              -> { <<>>, <<"mail.x">> }

Environments ==
  { [key \in Keys |->
       CASE key[1] = "EMAIL"    -> IF em[key[2]] = "address" THEN <<AddressOf(key[2])>>
                                   ELSE IF em[key[2]] = "empty" THEN <<"">> ELSE <<>>
         [] key[1] = "PASS"     -> pw[key[2]]
         [] key[1] = "PROTOCOL" -> pr[key[2]]
         [] OTHER               -> sv[key[2]]] :
      em \in [KeyDigits -> {"unset", "empty", "address"}],
      pw \in [{ str(n) : n \in Numbers } -> ValuesOf("PASS")],
      pr \in [{ str(n) : n \in Numbers } -> ValuesOf("PROTOCOL")],
      sv \in [{ str(n) : n \in Numbers } -> ValuesOf("SERVER")] }

\* os.environ.get(key, default)
get(key, default) ==
  IF key \in DOMAIN environ /\ environ[key] # <<>> THEN environ[key][1] ELSE default

\* str.upper()
upper(v) ==
  CASE v = "imap" -> "IMAP" [] v = "pop3" -> "POP3" [] v = "exchange" -> "EXCHANGE" [] OTHER -> v

\* line 43 / 48: account_pattern.match(key) with ^ACCOUNT_(\d+)_EMAIL$
match(key) == key[1] = "EMAIL"

\* lines 59-62: default server from the protocol
default_server(protocol) == IF protocol = "POP3" THEN "pop.gmail.com" ELSE "imap.gmail.com"

\* line 66: if email_addr
emailConfiguredAlways(email_addr) == TRUE

emailConfigured(email_addr) == email_addr \notin {"None", ""}

DiscoverFrame ==
  UNCHANGED <<entry, MAX_RETRIES, SENDER_EMAIL, SENDER_PASS, environ, listVars, mainVars, fetchVars,
              sendVars>>

\* the state in which discover_accounts is called with some environment
InitDiscover ==
  /\ entry = "discover"
  /\ pc = "scan"
  /\ environ \in Environments
  /\ unscanned = { key \in Keys : environ[key] # <<>> }
  /\ account_numbers = {}
  /\ num = -1
  /\ accounts = <<>>
  /\ ScriptAtRest
  /\ ListAtRest

\* lines 46-50: one iteration of the scan over os.environ.keys(); the keys
\* come in one order, and account_numbers, a set, does not depend on it
DiscoverScan ==
  /\ pc = "scan"
  /\ IF unscanned = {}
       THEN /\ pc' = "build"
            /\ UNCHANGED <<unscanned, account_numbers>>
       ELSE LET key == CHOOSE k \in unscanned : TRUE IN
            /\ account_numbers' = IF match(key) THEN account_numbers \cup {int(key[2])}
                                   ELSE account_numbers
            /\ unscanned' = unscanned \ {key}
            /\ UNCHANGED pc
  /\ UNCHANGED <<num, accounts, ACCOUNTS_TO_CHECK>>
  /\ DiscoverFrame

\* lines 53-72: one iteration of the loop over sorted(account_numbers)
DiscoverBuild ==
  /\ pc = "build"
  /\ LET rest == { n \in account_numbers : n > num } IN
     IF rest = {}
       THEN /\ pc' = "discover_return"
            /\ UNCHANGED <<num, accounts>>
       ELSE LET n          == CHOOSE m \in rest : \A o \in rest : m <= o
                email_addr == get(<<"EMAIL", str(n)>>, "None")
                password   == get(<<"PASS", str(n)>>, "")
                protocol   == upper(get(<<"PROTOCOL", str(n)>>, "IMAP"))
                server     == get(<<"SERVER", str(n)>>, default_server(protocol))
            IN
            /\ num' = n
            /\ accounts' =
                 IF emailConfigured(email_addr)
                   THEN Append(accounts, [email |-> email_addr, password |-> password,
                                          server |-> server, protocol |-> protocol])
                   ELSE accounts
            /\ UNCHANGED pc
  /\ UNCHANGED <<unscanned, account_numbers, ACCOUNTS_TO_CHECK>>
  /\ DiscoverFrame

\* lines 74, 77: return accounts; ACCOUNTS_TO_CHECK = discover_accounts()
DiscoverReturn ==
  /\ pc = "discover_return"
  /\ ACCOUNTS_TO_CHECK' = accounts
  /\ pc' = "discovered"
  /\ UNCHANGED <<unscanned, account_numbers, num, accounts>>
  /\ DiscoverFrame

NextDiscover == DiscoverScan \/ DiscoverBuild \/ DiscoverReturn

SpecDiscover == InitDiscover /\ [][NextDiscover]_vars

\* ------------------------------------------------ ListFiles.create_entities
\* the tree under folder_path: each directory holds at most one entry that is
\* not a directory (f) and at most one directory (d); tree[k] describes the
\* entries found at depth k
FileKinds == {"none", "file", "symlink"}

DirKinds == {"none", "dir", "denied"}

Trees ==
  { t \in [0..MaxTreeDepth -> [f : FileKinds, d : DirKinds]] :
      /\ t[MaxTreeDepth].d = "none"
      /\ \A k \in 0..(MaxTreeDepth - 1) :
           t[k].d # "dir" => t[k + 1] = [f |-> "none", d |-> "none"] }

\* line 78: os.scandir(path) on the directory at this depth
scandir(depth) ==
  (IF tree[depth].f # "none" THEN {"f"} ELSE {}) \cup (IF tree[depth].d # "none" THEN {"d"} ELSE {})

Requests ==
  [ recursive : {None, Param("bool", 1), Param("bool", 0)},
    max_depth : {None, Param("int", 0), Param("text", 0)}
                  \cup { Param("str", k) : k \in 0..MaxTreeDepth },
    maxdepth  : {None} ]                              \* the alias is varied in SettingRequests

ListEnvironments ==
  [ LISTFILES_RECURSIVE : {None, Param("str", 0)},
    LISTFILES_MAXDEPTH  : {None, Param("str", 0)} ]

\* lines 53, 61: str(v).lower() in ('1', 'true', 'yes')
inTrueWords(v) == v.type \in {"bool", "int", "str"} /\ v.val = 1

\* line 57: the truth value of a, in a or b
truthy(v) ==
  CASE v.type = "none" -> FALSE
    [] v.type \in {"bool", "int"} -> v.val # 0
    [] OTHER -> TRUE

\* lines 66, 71: int(v) in try/except: <<>> when it raises
intOrNone(v) == IF v.type \in {"bool", "int", "str"} THEN <<v.val>> ELSE <<>>

\* lines 53-61: recursive, from the request when it names it, else from the environment
ResolveRecursive(req, env) ==
  IF req.recursive # None THEN inTrueWords(req.recursive)
  ELSE IF env.LISTFILES_RECURSIVE # None THEN inTrueWords(env.LISTFILES_RECURSIVE)
  ELSE TRUE

\* lines 54-73: max_depth, from the request when it names it, else from the environment
ResolveMaxDepth(req, env) ==
  LET req_maxdepth == IF truthy(req.max_depth) THEN req.max_depth ELSE req.maxdepth IN
  IF req_maxdepth # None THEN intOrNone(req_maxdepth)
  ELSE IF env.LISTFILES_MAXDEPTH # None THEN intOrNone(env.LISTFILES_MAXDEPTH)
  ELSE <<>>

\* line 84: max_depth is None or cur_depth < max_depth
DescendOneTooDeep(cur_depth, limit) == limit = <<>> \/ cur_depth <= limit[1]

Descend(cur_depth, limit) == limit = <<>> \/ cur_depth < limit[1]

ListFrame ==
  UNCHANGED <<entry, MAX_RETRIES, SENDER_EMAIL, SENDER_PASS, ACCOUNTS_TO_CHECK, discVars,
              mainVars, fetchVars, sendVars, request, listenv, folder, tree>>

\* the state in which create_entities is called on some request
InitListFiles ==
  /\ entry = "listfiles"
  /\ pc = "list_start"
  /\ request \in Requests
  /\ listenv \in ListEnvironments
  /\ \/ folder = "dir" /\ tree \in Trees
     \/ /\ folder \in {"missing", "file", "denied"}      \* nothing under folder_path can be listed
        /\ tree = [k \in 0..MaxTreeDepth |-> [f |-> "none", d |-> "none"]]
  /\ recursive = FALSE
  /\ max_depth = <<>>
  /\ stack = <<>>
  /\ current = -1
  /\ entities = <<>>
  /\ messages = <<>>
  /\ total = 0
  /\ faults = 0
  /\ failing = {}
  /\ ScriptAtRest
  /\ DiscoverAtRest

\* lines 18-26, 53-73, 95-96, 77-78, 90-91: the path checks, the settings, and
\* the listing of folder_path when the emit loop asks for the first file
ListStart ==
  /\ pc = "list_start"
  /\ IF folder = "missing"
       THEN /\ messages' = Append(messages, "path_not_found")
            /\ pc' = "list_done"
            /\ UNCHANGED <<recursive, max_depth, stack>>
     ELSE IF folder = "file"
       THEN /\ messages' = Append(messages, "not_a_directory")
            /\ pc' = "list_done"
            /\ UNCHANGED <<recursive, max_depth, stack>>
     ELSE /\ recursive' = ResolveRecursive(request, listenv)
          /\ max_depth' = ResolveMaxDepth(request, listenv)
          /\ IF folder = "denied"
               THEN /\ messages' = Append(messages, "permission_denied")
                    /\ stack' = <<>>
                    /\ pc' = "list_summary"
               ELSE /\ stack' = <<scandir(0)>>
                    /\ pc' = "list_walk"
                    /\ UNCHANGED messages
  /\ failing' = IF folder = "denied" THEN {<<"d", -1>>} ELSE failing
  /\ total' = 0
  /\ UNCHANGED <<current, entities, faults>>
  /\ ListFrame

\* what inspecting an entry can raise
EntryErrors == {"PermissionError", "OSError"}

\* lines 86-89: the except clauses around the inspection of one entry
EntryHandlerOnlyPermission(exc) == IF exc = "PermissionError" THEN "report" ELSE "propagate"

EntryHandler(exc) == IF exc \in {"PermissionError", "OSError"} THEN "report" ELSE "propagate"

\* lines 79-89: iter_files takes the next entry of the directory it is in;
\* os.scandir yields the entries in arbitrary order
ListEntry ==
  /\ pc = "list_walk"
  /\ stack # <<>>
  /\ LET cur_depth == Len(stack) - 1 IN
     \E e \in stack[Len(stack)] :
       LET rest == [stack EXCEPT ![Len(stack)] = @ \ {e}] IN
       \/ /\ IF e = "f"
               THEN IF tree[cur_depth].f = "file"            \* entry.is_file(follow_symlinks=False)
                      THEN /\ current' = cur_depth
                           /\ pc' = "list_emit"
                           /\ stack' = rest
                           /\ UNCHANGED <<messages, failing>>
                      ELSE /\ stack' = rest
                           /\ UNCHANGED <<pc, current, messages, failing>>
             ELSE IF recursive /\ Descend(cur_depth, max_depth)
               THEN IF tree[cur_depth].d = "denied"          \* os.scandir raises PermissionError
                      THEN /\ messages' = Append(messages, "permission_denied")
                           /\ failing' = failing \cup {<<"d", cur_depth>>}
                           /\ stack' = rest
                           /\ UNCHANGED <<pc, current>>
                      ELSE /\ stack' = Append(rest, scandir(cur_depth + 1))
                           /\ UNCHANGED <<pc, current, messages, failing>>
             ELSE /\ stack' = rest
                  /\ UNCHANGED <<pc, current, messages, failing>>
          /\ UNCHANGED faults
       \/ /\ faults < MaxFaults                              \* is_file / is_dir raises
          /\ faults' = faults + 1
          /\ \E exc \in EntryErrors :
               IF EntryHandler(exc) = "report"
                 THEN /\ messages' = Append(messages, IF exc = "PermissionError"
                                                        THEN "entry_permission_denied"
                                                        ELSE "entry_error")
                      /\ failing' = failing \cup {<<e, cur_depth>>}
                      /\ stack' = rest
                      /\ UNCHANGED <<pc, current>>
                 ELSE /\ pc' = "list_raised"
                      /\ UNCHANGED <<stack, current, messages, failing>>
  /\ UNCHANGED <<recursive, max_depth, entities, total>>
  /\ ListFrame

\* lines 78-79, 85, 96: a directory has no entry left: its iter_files ends,
\* and with the outermost one the emit loop
ListEndDir ==
  /\ pc = "list_walk"
  /\ \/ stack = <<>>
     \/ stack # <<>> /\ stack[Len(stack)] = {}
  /\ IF Len(stack) <= 1
       THEN pc' = "list_summary" /\ stack' = <<>>
       ELSE pc' = pc /\ stack' = SubSeq(stack, 1, Len(stack) - 1)
  /\ UNCHANGED <<recursive, max_depth, current, entities, messages, total, faults, failing>>
  /\ ListFrame

\* the entity of the file yielded at this depth: its path and depth properties
FileEntity(depth) == [path |-> depth, depth |-> depth]

\* lines 96-119: the body of the emit loop for the file just yielded
ListEmit ==
  /\ pc = "list_emit"
  /\ \/ /\ entities' = Append(entities, FileEntity(current))      \* all calls succeed
        /\ total' = total + 1
        /\ UNCHANGED <<messages, faults>>
     \/ /\ faults < MaxFaults                                     \* os.path.getsize raises OSError
        /\ entities' = Append(entities, FileEntity(current))
        /\ messages' = Append(messages, "size_unreadable")
        /\ total' = total + 1
        /\ faults' = faults + 1
     \/ /\ faults < MaxFaults                                     \* response.addEntity raises
        /\ messages' = Append(messages, "failed_to_add")
        /\ faults' = faults + 1
        /\ UNCHANGED <<entities, total>>
     \/ /\ faults < MaxFaults                                     \* an addProperty call raises
        /\ entities' = Append(entities, FileEntity(current))
        /\ messages' = Append(messages, "failed_to_add")
        /\ faults' = faults + 1
        /\ UNCHANGED total
  /\ current' = -1
  /\ pc' = "list_walk"
  /\ UNCHANGED <<recursive, max_depth, stack, failing>>
  /\ ListFrame

\* lines 121-126: the summary message
ListSummary ==
  /\ pc = "list_summary"
  /\ messages' = Append(messages, "summary")
  /\ pc' = "list_done"
  /\ UNCHANGED <<recursive, max_depth, stack, current, entities, total, faults, failing>>
  /\ ListFrame

NextListFiles == ListStart \/ ListEntry \/ ListEndDir \/ ListEmit \/ ListSummary

SpecListFiles == InitListFiles /\ [][NextListFiles]_vars

\* a directory with a file and a sub directory at every depth
FullTree ==
  [k \in 0..MaxTreeDepth |-> [f |-> "file", d |-> IF k < MaxTreeDepth THEN "dir" ELSE "none"]]

\* the values a caller can put under recursive, max_depth and maxdepth, and the
\* values the two environment variables can hold
SettingRequests ==
  [ recursive : {None, Param("bool", 0), Param("bool", 1), Param("int", 0), Param("text", 0)},
    max_depth : {None, Param("int", 0), Param("int", 1), Param("str", 0), Param("str", 1),
                 Param("text", 0)},
    maxdepth  : {None, Param("int", 0), Param("str", 0), Param("str", 1)} ]

SettingEnvironments ==
  [ LISTFILES_RECURSIVE : {None, Param("str", 0), Param("str", 1)},
    LISTFILES_MAXDEPTH  : {None, Param("str", 0), Param("str", 1), Param("text", 0)} ]

\* create_entities is called on the full tree with some settings
InitSettings ==
  /\ entry = "listfiles"
  /\ pc = "list_start"
  /\ request \in SettingRequests
  /\ listenv \in SettingEnvironments
  /\ folder = "dir"
  /\ tree = FullTree
  /\ recursive = FALSE
  /\ max_depth = <<>>
  /\ stack = <<>>
  /\ current = -1
  /\ entities = <<>>
  /\ messages = <<>>
  /\ total = 0
  /\ faults = 0
  /\ failing = {}
  /\ ScriptAtRest
  /\ DiscoverAtRest

SpecSettings == InitSettings /\ [][NextListFiles]_vars

\* ------------------------------------------------------------ specification
Next ==
  \/ MainStart \/ MainLoop \/ MainCollect \/ MainReport \/ MainExit
  \/ ImapConnect \/ ImapLogin \/ ImapSelect \/ ImapSearch \/ ImapFetch
  \/ ImapClose \/ ImapLogout
  \/ Pop3Connect \/ Pop3User \/ Pop3Pass \/ Pop3List \/ Pop3Retr \/ Pop3Quit
  \/ SendEntry \/ WriteExcel \/ WriteCsv \/ Compose \/ SendLoop
  \/ SmtpConnect \/ SmtpStarttls \/ SmtpLogin \/ SmtpSendmail \/ SmtpQuit
  \/ CallerReturn

Spec == Init /\ [][Next]_vars

\* the script is one thread of control: it always takes its next step
FairSpec == Spec /\ WF_vars(Next)

\* ------------------------------------------------------------------ claims
ConnectPcs == {"imap_connect", "pop3_connect"}

SendPcs == { "send_entry", "write_excel", "write_csv", "compose", "send_loop",
             "smtp_connect", "smtp_starttls", "smtp_login", "smtp_sendmail", "smtp_quit" }

SendReturned == pc \in {"send_return", "done"} \/ (pc = "exit" /\ send_exit # "none")

IsList(l) == DOMAIN l = 1..Len(l)

\* the records of l are those of messages of one attempt, in server order
OneAttemptInOrder(l, n) ==
  /\ \A k \in 1..Len(l) : l[k].Msg \in 1..n
  /\ \A j, k \in 1..Len(l) : j < k => l[j].Msg < l[k].Msg

AllFive == <<"connect", "starttls", "login", "sendmail", "quit">>

\* C1: fetch_from_account never raises to its caller: whatever fails at
\* whatever step of whatever connection attempt, no exception leaves the call
\* and the call ends by returning a list (possibly empty).
C1_FetchAlwaysReturnsList ==
  /\ [](pc # "fetch_raised")
  /\ [](pc = "fetch_return" => IsList(ret))
  /\ ((pc \in FetchPcs) ~> (pc = "fetch_return"))

\* an attempt was ended by an exception that is neither a protocol error nor a
\* timeout, after a retry, and the call returned its list
C1_Witness ==
  pc = "fetch_return" /\ fetch_exit = "other" /\ retry_count > 0 /\ fail_step = "imap_close"

\* C2: a protocol error outside the per-message loop starts a whole new
\* connection attempt (one backoff sleep of 2^retry_count before it), and one
\* account is never given more than MAX_RETRIES re-attempts, that is
\* MAX_RETRIES + 1 connections: a fetch that gives up on a protocol error has
\* used exactly that many.
C2_RetriesBounded ==
  /\ retry_count <= MAX_RETRIES
  /\ connects <= MAX_RETRIES + 1
  /\ pc \in FetchPcs => connects = (IF pc \in ConnectPcs THEN retry_count ELSE retry_count + 1)
  /\ pc \in FetchPcs \cup {"fetch_return"} => backoff = [k \in 1..retry_count |-> Pow2(k - 1)]
  /\ pc \in ConnectPcs => extracted_data = <<>> /\ msg_i = 0 /\ num_messages = 0
  /\ (pc = "fetch_return" /\ fetch_exit = "proto") => connects = MAX_RETRIES + 1

\* every attempt failed with a protocol error and the limit was reached
C2_Witness ==
  pc = "fetch_return" /\ fetch_exit = "proto" /\ MAX_RETRIES = 2 /\ connects = 3

\* C3 as claimed: two attempts fail with a protocol error, the third succeeds,
\* and the result is non-empty.
C3_Original ==
  (pc = "fetch_return" /\ retry_count = 2 /\ fetch_exit = "ok") => ret # <<>>

\* C3 amended: two attempts fail with a protocol error, the third succeeds:
\* the call returns (no error propagated) exactly the records the third attempt
\* extracted, in order and none of an earlier attempt; the result is empty when
\* that attempt extracted nothing.
C3_ThirdAttemptRecords ==
  (retry_count = 2 /\ (pc = "fetch_return" \/ pc = "fetch_raised")) =>
     /\ pc = "fetch_return"
     /\ fetch_exit = "ok" =>
          /\ ret = extracted_data
          /\ OneAttemptInOrder(ret, num_messages)

C3_Witness ==
  pc = "fetch_return" /\ retry_count = 2 /\ fetch_exit = "ok" /\ Len(ret) = 2

\* C4 as claimed: a fetch that failed with a protocol error on every attempt up
\* to the retry limit, at whatever step, yields an empty result.
C4_Original ==
  (pc = "fetch_return" /\ fetch_exit = "proto") => ret = <<>>

\* C5 as claimed: once a TimeoutError was raised during an account fetch, no
\* further connection attempt is made for that account.
C5_Original ==
  [][(timeout_at # "none" /\ pc \in FetchPcs) => connects' = connects]_vars

\* C5 amended: a TimeoutError raised outside the per-message loop is not
\* retried: the fetch returns at once the list extracted so far (empty when the
\* timeout happened at connect) and no further connection is opened.
C5_OuterTimeoutNotRetried ==
  timeout_at = "outer" =>
     /\ pc = "fetch_return"
     /\ fetch_exit = "timeout"
     /\ ret = extracted_data
     /\ connects = retry_count + 1
     /\ fail_step \in ConnectPcs => ret = <<>>

C5_Witness ==
  timeout_at = "outer" /\ retry_count > 0 /\ fail_step = "pop3_quit" /\ ret # <<>>

\* C6: an SMTP authentication failure makes send_consolidated_report return
\* False at once: the attempt that raised it is the last connection opened, and
\* the only sleeps taken are those between the attempts before it.
C6_AuthFailureNotRetried ==
  smtp_auth_error =>
     /\ SendReturned
     /\ send_result = "False"
     /\ send_exit = "auth"
     /\ smtp_connects = attempt + 1
     /\ Len(sleeps) = attempt

\* the authentication failure came in a later attempt, after a backoff sleep
C6_Witness ==
  smtp_auth_error /\ pc = "send_return" /\ attempt = 1 /\ sleeps = <<1>> /\ MAX_RETRIES = 2

\* C7 as claimed: a send whose every attempt fails with an error other than an
\* authentication failure has made MAX_RETRIES retries after its first attempt.
C7_Original ==
  (pc = "send_return" /\ send_exit = "exhausted") => smtp_connects = MAX_RETRIES + 1

\* C7 amended: a send-time error other than an authentication failure is
\* retried until MAX_RETRIES send attempts in all have been made (MAX_RETRIES - 1
\* retries after the first, no attempt at all when MAX_RETRIES = 0), with a sleep
\* of 2^attempt seconds between consecutive attempts and none after the last;
\* when every attempt fails the function returns False.
C7_SendAttemptsBounded ==
  /\ smtp_connects <= MAX_RETRIES
  /\ pc \in SendPcs =>
        sleeps = [k \in 1..(IF attempt < MAX_RETRIES THEN attempt ELSE MAX_RETRIES - 1) |-> Pow2(k - 1)]
  /\ send_exit = "exhausted" =>
        /\ send_result = "False"
        /\ smtp_connects = MAX_RETRIES
        /\ attempt = MAX_RETRIES
        /\ Len(sleeps) = (IF MAX_RETRIES = 0 THEN 0 ELSE MAX_RETRIES - 1)
        /\ \A k \in 1..Len(sleeps) : sleeps[k] = Pow2(k - 1)

C7_Witness ==
  pc = "send_return" /\ send_exit = "exhausted" /\ MAX_RETRIES = 2 /\ smtp_connects = 2
    /\ sleeps = <<1>>

\* C8: an empty report causes no send attempt and no other side effect: called
\* with an empty dataframe, send_consolidated_report returns False having
\* written no artifact, attached nothing, opened no SMTP connection and slept
\* not at all; and the main script never calls it with nothing collected.
C8_EmptyReportNoSideEffect ==
  /\ dataframe = <<>> =>
        /\ artifact = "none" /\ attached = "none"
        /\ smtp_connects = 0 /\ sleeps = <<>>
        /\ pc \in SendPcs => pc = "send_entry"
        /\ pc \in {"send_return", "done"} => send_result = "False" /\ send_exit = "empty"
  /\ (entry = "main" /\ master_list = <<>>) => (pc \notin SendPcs /\ send_result = "none")

C8_Witness ==
  entry = "send" /\ dataframe = <<>> /\ pc = "done" /\ send_result = "False"

\* C9: send_consolidated_report returns True exactly when a send attempt has
\* completed connect, STARTTLS, login, sendmail and quit; every other path
\* returns False.
C9_TrueOnlyOnSuccess ==
  SendReturned =>
     /\ send_result \in {"True", "False"}
     /\ send_result = "True" <=> smtp_done = AllFive
     /\ send_exit \in {"empty", "write_failed", "compose_failed", "auth", "exhausted"}
          => send_result = "False"

\* the report was sent in a second attempt
C9_Witness ==
  pc = "send_return" /\ send_result = "True" /\ attempt = 1 /\ smtp_connects = 2

\* C10: when the spreadsheet writer fails, the report is written as delimited
\* text under the same filename and the run goes on to compose and send the
\* message with that file attached; when the fallback write fails too, the
\* function returns False and no SMTP connection is attempted.
C10_FallbackArtifact ==
  primary_failed =>
     /\ pc \in {"compose", "send_loop"} => artifact = "csv"
     /\ (pc \in SendPcs \ {"write_csv", "compose"}) => attached = "csv"
     /\ SendReturned =>
          \/ /\ send_exit = "write_failed"
             /\ send_result = "False" /\ smtp_connects = 0
             /\ artifact = "none" /\ attached = "none"
          \/ /\ send_exit = "compose_failed" /\ artifact = "csv" /\ smtp_connects = 0
          \/ /\ send_exit \in {"sent", "auth", "exhausted"}
             /\ artifact = "csv" /\ attached = "csv"

\* the fallback file went out with the message
C10_Witness ==
  primary_failed /\ pc = "send_return" /\ send_exit = "sent" /\ attached = "csv"

\* the configuration checks of lines 396-407 end the run
ConfigurationError ==
  \/ SENDER_EMAIL = "" \/ SENDER_PASS = ""
  \/ ACCOUNTS_TO_CHECK = <<>>
  \/ ~ \E k \in 1..Len(ACCOUNTS_TO_CHECK) : ACCOUNTS_TO_CHECK[k].password # ""

\* C11: the run ends with exit code 0 or 1 and no other: 1 when SENDER_EMAIL or
\* SENDER_PASS is missing, no account was discovered, no discovered account has
\* a password (no connection is made in these cases), or
\* send_consolidated_report reports failure; 0 exactly when the report was sent
\* or the accounts were visited and no message was collected.
C11_ExitCodes ==
  /\ exit_code \in {-1, 0, 1}
  /\ (pc = "exit") <=> (exit_code # -1)
  /\ pc = "exit" =>
       /\ (exit_code = 1) <=> (ConfigurationError \/ send_result = "False")
       /\ (exit_code = 0) <=>
            (send_result = "True" \/ (~ConfigurationError /\ master_list = <<>> /\ send_result = "none"))
       /\ ConfigurationError => idx = 0 /\ connects = 0 /\ smtp_connects = 0 /\ send_result = "none"
       /\ send_result # "none" => master_list # <<>> /\ dataframe = master_list

\* the run collected records, every send attempt failed, and the run ended with 1
C11_Witness ==
  pc = "exit" /\ exit_code = 1 /\ send_exit = "exhausted" /\ master_list # <<>>

\* C14: every record carries as Source Account the address of the account it
\* was fetched from: in the list an attempt is filling, in the list
\* fetch_from_account returns (IMAP or POP3, retried or not), and in the rows
\* of the aggregated report, which come from accounts already visited.
C14_SourceAccount ==
  /\ pc \in FetchPcs \cup {"fetch_return"} =>
       /\ \A k \in 1..Len(extracted_data) :
            extracted_data[k].SourceAccount = ACCOUNTS_TO_CHECK[idx].email
       /\ \A k \in 1..Len(ret) : ret[k].SourceAccount = ACCOUNTS_TO_CHECK[idx].email
  /\ entry = "main" =>
       \A k \in 1..Len(master_list) :
         \E a \in 1..Len(ACCOUNTS_TO_CHECK) :
           /\ a < idx
           /\ ACCOUNTS_TO_CHECK[a].password # ""
           /\ master_list[k].SourceAccount = ACCOUNTS_TO_CHECK[a].email
  /\ entry = "main" /\ pc \in SendPcs => dataframe = master_list

\* the second account's POP3 fetch returned records after a retry
C14_Witness ==
  /\ pc = "fetch_return" /\ idx = 2 /\ retry_count > 0 /\ ret # <<>>
  /\ ACCOUNTS_TO_CHECK[2].protocol = "POP3"

\* position of the account with address e in the discovered list
AccountIndex(e) == CHOOSE a \in 1..Len(ACCOUNTS_TO_CHECK) : ACCOUNTS_TO_CHECK[a].email = e

\* C15: accounts are processed one at a time in discovery order: an account's
\* first connection attempt starts from the main loop with a fresh frame, after
\* the previous account's fetch has returned and been collected; the report
\* rows are the per-account results concatenated in account order, each in the
\* order the server returned the messages.
C15_SequentialInOrder ==
  /\ [](\A j, k \in 1..Len(master_list) :
          j < k =>
            \/ AccountIndex(master_list[j].SourceAccount) < AccountIndex(master_list[k].SourceAccount)
            \/ /\ master_list[j].SourceAccount = master_list[k].SourceAccount
               /\ master_list[j].Msg < master_list[k].Msg)
  /\ [](pc \in FetchPcs =>
          \A k \in 1..Len(master_list) : AccountIndex(master_list[k].SourceAccount) < idx)
  /\ [][ /\ idx' \in {idx, idx + 1}
         /\ (pc \notin FetchPcs /\ pc' \in FetchPcs) =>
              /\ pc = "loop" /\ pc' \in ConnectPcs
              /\ connects' = 0 /\ retry_count' = 0 /\ extracted_data' = <<>>
              /\ UNCHANGED <<idx, master_list>>
         /\ pc = "fetch_return" =>
              /\ master_list' = master_list \o ret
              /\ idx' = idx + 1
              /\ pc' = "loop"
         /\ pc \in FetchPcs => UNCHANGED <<idx, master_list>> ]_vars

\* both accounts contributed rows and the loop is over
C15_Witness ==
  /\ pc = "after_loop" /\ Len(ACCOUNTS_TO_CHECK) = 2 /\ Len(master_list) >= 2
  /\ master_list[1].SourceAccount = ACCOUNTS_TO_CHECK[1].email
  /\ master_list[Len(master_list)].SourceAccount = ACCOUNTS_TO_CHECK[2].email

\* the parsed date is an instant before the cutoff instant: its clock reading
\* taken back to the script's zone is before that of the cutoff
OlderThanCutoff(d) == NaiveClock(d) - UtcOffset(d) < 0

\* C16: on the POP3 path every message of the server's list is retrieved, one
\* by one, and a retrieved message is left out of the result exactly when its
\* Date header parses and the parsed date is older than the cutoff; a message
\* whose date cannot be parsed is included.
C16_Original ==
  [][ pc = "pop3_retr" =>
        /\ msg_i \in 1..num_messages
        /\ (msg_i' = msg_i + 1 \/ (msg_i = num_messages /\ pc' = "pop3_quit"))
        /\ last_msg' \in Dates =>
             IF DateParses(last_msg') /\ OlderThanCutoff(last_msg')
               THEN extracted_data' = extracted_data
               ELSE extracted_data' =
                      Append(extracted_data, Row(ACCOUNTS_TO_CHECK[idx].email, msg_i, last_msg')) ]_vars

\* C17: messages are never deleted: on no path of an IMAP or POP3 fetch does
\* the server remove a message, so its message set after the fetch is the one
\* before it.
C17_Original == ~server_removed

\* C18: an error met while retrieving or parsing one message (any exception,
\* protocol errors included, or a fetch status other than OK) skips that message
\* only: no re-attempt, no backoff, no return; the loop goes on with the next
\* message, and each message retrieved without error and not dropped by the
\* POP3 date filter adds exactly one record, after those already there.
C18_PerMessageErrorSkipsOne ==
  [][ (pc = "imap_fetch" \/ pc = "pop3_retr") =>
        /\ UNCHANGED <<retry_count, connects, backoff, ret, fetch_exit, num_messages>>
        /\ IF msg_i < num_messages
             THEN pc' = pc /\ msg_i' = msg_i + 1
             ELSE pc' = (IF pc = "imap_fetch" THEN "imap_close" ELSE "pop3_quit")
        /\ last_msg' \in {"err", "notok"} \cup Dates
        /\ IF last_msg' \in {"err", "notok"} \/ (pc = "pop3_retr" /\ Pop3Skips(last_msg'))
             THEN extracted_data' = extracted_data
             ELSE extracted_data' =
                    Append(extracted_data, Row(ACCOUNTS_TO_CHECK[idx].email, msg_i, last_msg')) ]_vars

\* the first message raised a timeout, the second was recorded, and the only
\* attempt returned that one record
C18_Witness ==
  /\ pc = "fetch_return" /\ fetch_exit = "ok" /\ retry_count = 0 /\ timeout_at = "inner"
  /\ Len(ret) = 1 /\ ret[1].Msg = 2

\* positions at which the connection of the current attempt is open
OpenFetchPcs == FetchPcs \ ConnectPcs

OpenSmtpPcs == {"smtp_starttls", "smtp_login", "smtp_sendmail", "smtp_quit"}

\* C19: no mail connection outlives the operation that opened it: an attempt
\* of fetch_from_imap / fetch_from_pop3 that holds an open connection ends (by
\* returning or by starting the next attempt) only through a completed
\* logout / quit, and a send attempt that holds an open SMTP connection ends
\* only through a completed quit.
C19_Original ==
  [][ /\ (pc \in OpenFetchPcs /\ pc' \notin OpenFetchPcs) =>
            (pc \in {"imap_logout", "pop3_quit"} /\ fetch_exit' = "ok")
      /\ (pc \in OpenSmtpPcs /\ pc' \notin OpenSmtpPcs) =>
            (pc = "smtp_quit" /\ send_result' = "True") ]_vars

\* discover_accounts has returned
Discovered == pc \in {"discover_return", "discovered"}

\* the numbers N whose ACCOUNT_<N>_EMAIL holds a non-empty value
Configured == { n \in Numbers : get(<<"EMAIL", str(n)>>, "") # "" }

\* the number whose address the descriptor carries
NumberOf(account) == CHOOSE n \in Numbers : AddressOf(str(n)) = account.email

\* C12: discover_accounts returns exactly one descriptor for each account
\* number N whose ACCOUNT_<N>_EMAIL value is non-empty, in ascending numeric
\* order, with that value as address and the value of ACCOUNT_<N>_PASS, or the
\* empty string when it is unset, as password; a number without an address
\* value contributes no descriptor.
C12_DiscoverAccounts ==
  Discovered =>
    /\ Len(accounts) = Cardinality(Configured)
    /\ \A k \in 1..Len(accounts) :
         /\ \E n \in Configured : accounts[k].email = environ[<<"EMAIL", str(n)>>][1]
         /\ accounts[k].password = get(<<"PASS", str(NumberOf(accounts[k]))>>, "")
    /\ \A n \in Configured : \E k \in 1..Len(accounts) : NumberOf(accounts[k]) = n
    /\ \A j, k \in 1..Len(accounts) : j < k => NumberOf(accounts[j]) < NumberOf(accounts[k])
    /\ pc = "discovered" => ACCOUNTS_TO_CHECK = accounts

\* the keys 1 and 5 hold addresses, 5 has no password, and a key 01 is set too:
\* two descriptors, 1 then 5, the second with the empty password
C12_Witness ==
  /\ pc = "discovered" /\ Len(ACCOUNTS_TO_CHECK) = 2
  /\ environ[<<"EMAIL", <<0, 1>> >>] # <<>>
  /\ ACCOUNTS_TO_CHECK[1].email = AddressOf(<<1>>)
  /\ ACCOUNTS_TO_CHECK[2].email = AddressOf(<<5>>)
  /\ ACCOUNTS_TO_CHECK[2].password = ""

\* C13: every descriptor has protocol IMAP or POP3, whatever value
\* ACCOUNT_<N>_PROTOCOL holds (IMAP when it is unset), and when
\* ACCOUNT_<N>_SERVER is unset its server is the default host of that protocol:
\* imap.gmail.com for IMAP, pop.gmail.com for POP3.
C13_Original ==
  Discovered =>
    \A k \in 1..Len(accounts) :
      LET n == NumberOf(accounts[k]) IN
      /\ accounts[k].protocol \in {"IMAP", "POP3"}
      /\ environ[<<"PROTOCOL", str(n)>>] = <<>> => accounts[k].protocol = "IMAP"
      /\ environ[<<"SERVER", str(n)>>] = <<>> =>
           accounts[k].server = (IF accounts[k].protocol = "IMAP" THEN "imap.gmail.com"
                                 ELSE "pop.gmail.com")

\* the paths of the file entities in the response
Emitted == { entities[k].path : k \in 1..Len(entities) }

\* the regular files of the tree that the policy in effect reaches: those of
\* folder_path itself, and with recursion those at depth <= max_depth, or at
\* any depth when max_depth is None
PolicyFiles ==
  { k \in 0..MaxTreeDepth :
      /\ tree[k].f = "file"
      /\ \A j \in 0..(k - 1) : tree[j].d = "dir"
      /\ k = 0 \/ (recursive /\ (max_depth = <<>> \/ k <= max_depth[1])) }

\* no listing was refused and the response took every entity
NoListError == \A k \in 1..Len(messages) : messages[k] \in {"size_unreadable", "summary"}

\* C20: for every directory tree, recursion flag and max_depth, the paths
\* emitted as file entities are the regular files the policy in effect reaches
\* (depth 0 only without recursion; depth <= max_depth with recursion and a
\* max_depth; any depth with recursion and no max_depth): never one more, each
\* once, with its depth, and never one fewer when no listing was refused and
\* the response took every entity.
C20_EmittedEqualsPolicy ==
  entry = "listfiles" /\ pc # "list_start" /\ folder \in {"dir", "denied"} =>
    /\ Emitted \subseteq PolicyFiles
    /\ Len(entities) = Cardinality(Emitted)
    /\ \A k \in 1..Len(entities) : entities[k].depth = entities[k].path
    /\ (pc = "list_done" /\ NoListError) => Emitted = PolicyFiles

\* recursion with max_depth 1 over a tree with files at depths 0, 1 and 2: the
\* first two are emitted, the third is not
C20_Witness ==
  /\ pc = "list_done" /\ recursive /\ max_depth = <<1>>
  /\ tree[2].f = "file"
  /\ Emitted = {0, 1}

\* the value is the limit 0, as an integer or as the string "0"
IsZero(v) == v \in {Param("int", 0), Param("str", 0)}

\* the limit 0 is supplied in one of the three ways
ZeroSupplied ==
  \/ IsZero(request.max_depth) /\ request.maxdepth = None
  \/ request.max_depth = None /\ IsZero(request.maxdepth)
  \/ /\ request.max_depth = None /\ request.maxdepth = None
     /\ listenv.LISTFILES_MAXDEPTH = Param("str", 0)

\* C21: max_depth = 0 with recursion enabled yields exactly the files that are
\* direct children of the root and no deeper entry, whichever way the limit is
\* supplied: request parameter max_depth or maxdepth (integer 0 or string "0")
\* or LISTFILES_MAXDEPTH=0.
C21_Original ==
  (entry = "listfiles" /\ pc = "list_done" /\ folder = "dir"
     /\ recursive /\ ZeroSupplied /\ NoListError) =>
    /\ max_depth = <<0>>
    /\ Emitted = { k \in {0} : tree[0].f = "file" }

\* the depth limit the request supplies: max_depth, or maxdepth when max_depth
\* is absent
SuppliedDepth == IF request.max_depth # None THEN request.max_depth ELSE request.maxdepth

\* C22: the recursion flag and the depth limit are each the request's when the
\* request supplies one (0, False and non-integers included), otherwise the
\* environment's when set, otherwise recursion enabled and depth unbounded.
C22_Original ==
  (entry = "listfiles" /\ pc # "list_start" /\ folder = "dir") =>
    /\ recursive = (IF request.recursive # None THEN inTrueWords(request.recursive)
                    ELSE IF listenv.LISTFILES_RECURSIVE # None
                      THEN inTrueWords(listenv.LISTFILES_RECURSIVE)
                    ELSE TRUE)
    /\ max_depth = (IF SuppliedDepth # None THEN intOrNone(SuppliedDepth)
                    ELSE IF listenv.LISTFILES_MAXDEPTH # None
                      THEN intOrNone(listenv.LISTFILES_MAXDEPTH)
                    ELSE <<>>)

\* the file at depth k is outside every subtree and entry that failed
OutsideFailing(k) ==
  /\ <<"f", k>> \notin failing
  /\ \A j \in (0 - 1)..(k - 1) : <<"d", j>> \notin failing

\* the messages that report a listing or inspection failure
WalkErrorKinds == {"permission_denied", "entry_permission_denied", "entry_error"}

\* C23: a permission or OS error raised while listing one directory or
\* inspecting one entry does not stop the walk: create_entities does not raise,
\* one PartialError message is reported for each failure, and every regular
\* file that the policy reaches outside the failing subtrees is emitted (when
\* the response takes every entity).
C23_WalkSurvivesErrors ==
  entry = "listfiles" =>
    /\ pc # "list_raised"
    /\ Cardinality({ k \in 1..Len(messages) : messages[k] \in WalkErrorKinds }) = Cardinality(failing)
    /\ (pc = "list_done" /\ folder = "dir"
          /\ \A k \in 1..Len(messages) : messages[k] # "failed_to_add") =>
         Emitted = { k \in PolicyFiles : OutsideFailing(k) }

\* the sub directory of the root could not be listed, and the file next to it
\* was emitted after the failure
C23_Witness ==
  /\ pc = "list_done" /\ <<"d", 0>> \in failing
  /\ messages = <<"permission_denied", "summary">>
  /\ Emitted = {0}

\* the positions of the informational summary in the response's messages
SummaryAt == { k \in 1..Len(messages) : messages[k] = "summary" }

\* C24 (as stated): at the end of every invocation create_entities has produced
\* exactly one summary message, as its last message, and the file total it
\* states equals the number of file entities present in the response.
C24_Original ==
  (entry = "listfiles" /\ pc = "list_done") =>
    /\ SummaryAt = {Len(messages)}
    /\ Len(messages) > 0
    /\ total = Len(entities)

\* C25 (as stated): in one run of send_consolidated_report the report email is
\* handed to the SMTP server at most once: sendmail completes successfully in
\* at most one attempt.
C25_Original == deliveries <= 1

\* C26: the list an account fetch returns holds the records of exactly one
\* connection attempt, the last one: every new attempt starts with an empty
\* list (the records of the attempt that ended in a retried protocol error are
\* discarded), within an attempt the list only grows by the record of the
\* message being read, and the call returns that list as it is, so a retry
\* neither duplicates a record nor mixes records of two attempts.
C26_LastAttemptOnly ==
  /\ [](pc = "fetch_return" =>
          /\ ret = extracted_data
          /\ OneAttemptInOrder(ret, num_messages)
          /\ connects = retry_count + 1)
  /\ [][ /\ retry_count' # retry_count => extracted_data' = <<>>
         /\ extracted_data' # extracted_data =>
              \/ extracted_data' = <<>>
              \/ /\ retry_count' = retry_count
                 /\ Len(extracted_data') = Len(extracted_data) + 1
                 /\ SubSeq(extracted_data', 1, Len(extracted_data)) = extracted_data
                 /\ extracted_data'[Len(extracted_data')].Msg = msg_i ]_vars

\* the first attempt extracted a record and ended in a protocol error; the
\* retry read the same two messages and the call returned two records, not three
C26_Witness ==
  /\ pc = "fetch_return" /\ fetch_exit = "ok" /\ retry_count = 1
  /\ discarded /\ num_messages = 2 /\ Len(ret) = 2

====
